---- MODULE Spec2Model ----
(***************************************************************************)
(* Model of the tasks-list UI (src/data.js, src/app.js).                   *)
(*                                                                         *)
(* src/app.js is one classic script that holds two revisions of the app    *)
(* one after the other (lines 1-197 and 198-333).  Function declarations   *)
(* of a script are bound before any statement runs and a later declaration *)
(* of a name replaces an earlier one, so fetchTasks, fetchAssignees,       *)
(* fetchLabels, TaskItem, TaskList and App are the declarations of lines   *)
(* 206-320 for the whole script; useTasksData (lines 102-136) is declared  *)
(* but called by no binding that is left.  The two self-invoking           *)
(* mountWhenReady expressions (lines 189-197 and 325-333) are statements,  *)
(* and both run, in source order.                                          *)
(*                                                                         *)
(* JavaScript values with identity (arrays, objects) live in `heap`.  An    *)
(* address is a pair <<arena, index>>: arena 0 holds what data.js built,   *)
(* arena v what the code of view v allocated, in allocation order.  The    *)
(* program cannot observe addresses, only whether two are the same.        *)
(***************************************************************************)
EXTENDS Integers, Sequences, FiniteSets, TLC

\* ------------------------------------------------------------------ bounds
\* updateStatus calls issued over all views in one behaviour
MaxCalls == 2
\* longest id sequence handed to getLabels when it is checked on its own
MaxIds == 2

\* --------------------------------------------------------------- constants
\* the two self-invoking mountWhenReady expressions, in source order
Copies == {1, 2}
\* the option values of the status selector
Statuses == {"todo", "in-progress", "done"}
\* statuses a caller may pass: updateStatus takes any string; two of the
\* option values and one string that is no option
StatusInputs == {"todo", "done", "archived"}
\* task ids a caller may pass: two that exist, one that does not
IdInputs == {1, 2, 99}
\* the three fetches of load()
Kinds == {"tasks", "assignees", "labels"}

VARIABLES
    React,      \* typeof React !== 'undefined'
    ReactDOM,   \* typeof ReactDOM !== 'undefined'
    scriptPc,   \* the mountWhenReady copy the script runs next (3: script done)
    timers,     \* copies with a pending setTimeout(mountWhenReady, 50)
    mounts,     \* per copy: number of createRoot/render calls it has made
    view,       \* per copy: life cycle of the TaskList its root renders
    st,         \* per view: the four useState cells of TaskList
    fetched,    \* per view: what each fetch promise resolved to (Undefined: pending)
    loadPc,     \* per view: load() not called, at its await, or past it
    rendered,   \* per view: the output of the last render
    calls,      \* per view: the updateStatus calls made, in call order, each with
                \* the tasks on screen at the call, the array the updater got
                \* and returned, and the tasks those arrays held
    heap,       \* the JavaScript heap
    lk          \* a call of getLabels on its own: arguments and result

vars == <<React, ReactDOM, scriptPc, timers, mounts, view, st, fetched,
          loadPc, rendered, calls, heap, lk>>

appVars == <<React, ReactDOM, scriptPc, timers, mounts, view, st, fetched,
             loadPc, rendered, calls, heap>>

\* ------------------------------------------------------------ src/data.js
LabelPersonal == [id |-> 1, name |-> "Personal", color |-> "#3b82f6"]
LabelBug == [id |-> 2, name |-> "Bug", color |-> "#ef4444"]
LabelFeature == [id |-> 3, name |-> "Feature", color |-> "#10b981"]

\* the heap once data.js has run: every array and object literal is a cell
DataCells ==
    << [elems |-> <<1>>],
       [id |-> 1, title |-> "Buy groceries", status |-> "todo",
        assigneeId |-> 1, labelIds |-> <<0, 1>>],
       [elems |-> <<2, 3>>],
       [id |-> 2, title |-> "Fix login bug", status |-> "in-progress",
        assigneeId |-> 2, labelIds |-> <<0, 3>>],
       [elems |-> <<>>],
       [id |-> 3, title |-> "Write meeting notes", status |-> "done",
        assigneeId |-> 3, labelIds |-> <<0, 5>>],
       [elems |-> << <<0, 2>>, <<0, 4>>, <<0, 6>> >>],
       [id |-> 1, name |-> "Alice", avatar |-> "https://i.pravatar.cc/150?img=1"],
       [id |-> 2, name |-> "Bob", avatar |-> "https://i.pravatar.cc/150?img=2"],
       [id |-> 3, name |-> "Charlie", avatar |-> "https://i.pravatar.cc/150?img=3"],
       [elems |-> << <<0, 8>>, <<0, 9>>, <<0, 10>> >>],
       LabelPersonal,
       LabelBug,
       LabelFeature,
       [elems |-> << <<0, 12>>, <<0, 13>>, <<0, 14>> >>] >>

DataHeap == [a \in {0} \cup Copies |-> IF a = 0 THEN DataCells ELSE <<>>]

\* undefined
Undefined == <<0, 0>>

\* window.TASKS_ENDPOINT, window.ASSIGNEES_ENDPOINT, window.LABELS_ENDPOINT
TASKS_ENDPOINT == <<0, 7>>
ASSIGNEES_ENDPOINT == <<0, 11>>
LABELS_ENDPOINT == <<0, 15>>

Endpoint(k) ==
    CASE k = "tasks" -> TASKS_ENDPOINT
      [] k = "assignees" -> ASSIGNEES_ENDPOINT
      [] k = "labels" -> LABELS_ENDPOINT

\* ------------------------------------------------------------ heap helpers
\* the cell at an address
At(h, ref) == h[ref[1]][ref[2]]

\* the heap with a new cell in arena v, and the address the cell gets
Alloc(h, v, cell) == [h EXCEPT ![v] = Append(@, cell)]
NewRef(h, v) == <<v, Len(h[v]) + 1>>

\* the objects an array holds, in order
Elems(h, ref) == [k \in 1..Len(At(h, ref).elems) |-> At(h, At(h, ref).elems[k])]

\* Array.prototype.slice(): a new array holding the same references
slice(h, ref) == [elems |-> At(h, ref).elems]


\* ----------------------------------------------------- lookups (app.js 294-295)
Min(S) == CHOOSE x \in S : \A y \in S : x <= y

\* getAssignee with a fault seeded: the comparison of the find callback negated
getAssigneeNegated(h, assignees, id) ==
    LET refs == At(h, assignees).elems
        hit == {k \in 1..Len(refs) : At(h, refs[k]).id # id}
    IN  IF hit = {} THEN Undefined ELSE refs[Min(hit)]

\* assignees.find((a) => a.id === id): the first match, or undefined
getAssignee(h, assignees, id) ==
    LET refs == At(h, assignees).elems
        hit == {k \in 1..Len(refs) : At(h, refs[k]).id = id}
    IN  IF hit = {} THEN Undefined ELSE refs[Min(hit)]

\* ids.includes(x)
includes(ids, x) == \E k \in 1..Len(ids) : ids[k] = x

\* labels.filter((l) => ids.includes(l.id)): the labels whose id is among
\* ids, in the order of the label collection
getLabels(labels, ids) ==
    LET keep(l) == includes(ids, l.id) IN SelectSeq(labels, keep)

\* ------------------------------------------- rendering (app.js 219-263, 297-313)
\* the UI description TaskItem returns for one task
TaskItem(h, task, assignee, labels) ==
    [ key |-> task.id,
      src |-> IF assignee # Undefined /\ At(h, assignee).avatar # ""
              THEN At(h, assignee).avatar ELSE "https://via.placeholder.com/40",
      alt |-> IF assignee # Undefined THEN At(h, assignee).name ELSE "Assignee",
      title |-> task.title,
      labels |-> [k \in 1..Len(labels) |->
                    [key |-> labels[k].id, color |-> labels[k].color,
                     name |-> labels[k].name]],
      value |-> task.status ]

\* what TaskList returns for the state s: the loading line, or one TaskItem
\* per task in the order of tasks
TaskList(h, s) ==
    IF s.loading
    THEN [screen |-> "loading", tasks |-> Undefined, rows |-> <<>>]
    ELSE [screen |-> "list", tasks |-> s.tasks,
          rows |-> [k \in 1..Len(At(h, s.tasks).elems) |->
                      LET task == At(h, At(h, s.tasks).elems[k])
                      IN  TaskItem(h, task,
                                   getAssignee(h, s.assignees, task.assigneeId),
                                   getLabels(Elems(h, s.labels),
                                             At(h, task.labelIds).elems))]]

\* nothing of this root is in the container
NoScreen == [screen |-> "none", tasks |-> Undefined, rows |-> <<>>]

\* --------------------------------------------------- updateStatus (app.js 289-291)
RECURSIVE MapFrom(_, _, _, _, _, _, _)
\* prev.map((t) => (t.id === taskId ? { ...t, status: newStatus } : t)) from
\* element k on, run by view v: a matching task is copied into a new object
\* with the new status, any other element is taken over as it is; the result
\* is a new array
MapFrom(h, v, elems, k, taskId, newStatus, acc) ==
    IF k > Len(elems)
    THEN [heap |-> Alloc(h, v, [elems |-> acc]), ref |-> NewRef(h, v)]
    ELSE IF At(h, elems[k]).id = taskId
         THEN MapFrom(Alloc(h, v, [At(h, elems[k]) EXCEPT !.status = newStatus]),
                      v, elems, k + 1, taskId, newStatus, Append(acc, NewRef(h, v)))
         ELSE MapFrom(h, v, elems, k + 1, taskId, newStatus, Append(acc, elems[k]))

\* MapStatus with a fault seeded: the status is written into the existing task object
\* and the existing array is returned
MapStatusInPlace(h, v, prev, taskId, newStatus) ==
    LET hit == {r \in {At(h, prev).elems[k] : k \in 1..Len(At(h, prev).elems)} :
                  At(h, r).id = taskId}
    IN  [heap |-> [a \in DOMAIN h |-> [i \in 1..Len(h[a]) |->
                     IF <<a, i>> \in hit
                     THEN [h[a][i] EXCEPT !.status = newStatus] ELSE h[a][i]]],
         ref |-> prev]

\* MapStatus with a fault seeded: the id test is lost and every task gets the status
MapStatusEvery(h, v, prev, taskId, newStatus) ==
    LET n == Len(At(h, prev).elems)
        base == Len(h[v])
    IN  [heap |-> [h EXCEPT ![v] =
                     @ \o [k \in 1..n |->
                             [At(h, At(h, prev).elems[k]) EXCEPT !.status = newStatus]]
                       \o << [elems |-> [k \in 1..n |-> <<v, base + k>>]] >>],
         ref |-> <<v, base + n + 1>>]

\* the updater handed to setTasks by view v, applied to the array prev
MapStatus(h, v, prev, taskId, newStatus) ==
    MapFrom(h, v, At(h, prev).elems, 1, taskId, newStatus, <<>>)

\* prevTasks with a fault seeded: the updater reads the tasks of the render that
\* created the handler instead of the state React hands it
closureTasks(v) == rendered[v].tasks

\* the state React hands the updater: the tasks as left by every earlier
\* update, applied in the order of the setTasks calls
prevTasks(v) == st[v].tasks

TotalCalls == Len(calls[1]) + Len(calls[2])


\* ------------------------------------------------------------- initial state
\* the useState cells before the component has rendered
NoState == [tasks |-> Undefined, assignees |-> Undefined, labels |-> Undefined,
            loading |-> TRUE]

\* none of the three promises has resolved
NoFetch == [tasks |-> Undefined, assignees |-> Undefined, labels |-> Undefined]

NoLookup == [labels |-> <<>>, ids |-> <<>>, result |-> <<>>, phase |-> "idle"]

\* data.js has run and app.js is about to; the library scripts may or may not
\* have defined their globals yet
InitApp ==
    /\ React \in BOOLEAN
    /\ ReactDOM \in BOOLEAN
    /\ scriptPc = 1
    /\ timers = {}
    /\ mounts = [i \in Copies |-> 0]
    /\ view = [i \in Copies |-> "none"]
    /\ st = [i \in Copies |-> NoState]
    /\ fetched = [i \in Copies |-> NoFetch]
    /\ loadPc = [i \in Copies |-> "idle"]
    /\ rendered = [i \in Copies |-> NoScreen]
    /\ calls = [i \in Copies |-> <<>>]
    /\ heap = DataHeap

Init == InitApp /\ lk = NoLookup

\* ------------------------------------------- bootstrap (app.js 189-197, 325-333)
\* MountWhenReady with a fault seeded: the else branch schedules no retry
MountWhenReadyNoRetry(i) ==
    IF React /\ ReactDOM
    THEN /\ mounts' = [mounts EXCEPT ![i] = @ + 1]
         /\ view' = [view EXCEPT ![i] = "scheduled"]
         /\ timers' = timers \ {i}
    ELSE /\ timers' = timers \ {i}
         /\ UNCHANGED <<mounts, view>>

\* the body of copy i of mountWhenReady: with both globals defined it creates
\* a root on the container and renders App into it, otherwise it sets a timer
\* that runs the same copy again
MountWhenReady(i) ==
    IF React /\ ReactDOM
    THEN /\ mounts' = [mounts EXCEPT ![i] = @ + 1]
         /\ view' = [view EXCEPT ![i] = "scheduled"]
         /\ timers' = timers \ {i}
    ELSE /\ timers' = timers \cup {i}
         /\ UNCHANGED <<mounts, view>>

\* the script reaches the i-th self-invoking expression
RunScript(i) ==
    /\ scriptPc = i
    /\ MountWhenReady(i)
    /\ scriptPc' = i + 1
    /\ UNCHANGED <<React, ReactDOM, st, fetched, loadPc, rendered, calls, heap, lk>>

\* the 50 ms timer of copy i fires; timers run only between scripts
TimerFire(i) ==
    /\ scriptPc = 3
    /\ i \in timers
    /\ MountWhenReady(i)
    /\ UNCHANGED <<React, ReactDOM, scriptPc, st, fetched, loadPc, rendered,
                   calls, heap, lk>>

\* the library scripts finish loading
LoadReact ==
    /\ scriptPc = 3
    /\ ~React
    /\ React' = TRUE
    /\ UNCHANGED <<ReactDOM, scriptPc, timers, mounts, view, st, fetched, loadPc,
                   rendered, calls, heap, lk>>

LoadReactDOM ==
    /\ scriptPc = 3
    /\ ~ReactDOM
    /\ ReactDOM' = TRUE
    /\ UNCHANGED <<React, scriptPc, timers, mounts, view, st, fetched, loadPc,
                   rendered, calls, heap, lk>>

\* ------------------------------------------------------ TaskList (app.js 269-314)
\* the first render of TaskList in root v: the three useState([]) cells get
\* their own empty arrays and loading is true; the loading line is shown and
\* the mount effect calls load(), which starts the three fetches
FirstRender(v) ==
    /\ scriptPc = 3
    /\ view[v] = "scheduled"
    /\ heap' = [heap EXCEPT ![v] =
                   @ \o << [elems |-> <<>>], [elems |-> <<>>], [elems |-> <<>>] >>]
    /\ st' = [st EXCEPT ![v] = [tasks |-> <<v, Len(heap[v]) + 1>>,
                                assignees |-> <<v, Len(heap[v]) + 2>>,
                                labels |-> <<v, Len(heap[v]) + 3>>,
                                loading |-> TRUE]]
    /\ rendered' = [rendered EXCEPT ![v] = TaskList(heap', st'[v])]
    /\ view' = [view EXCEPT ![v] = "mounted"]
    /\ loadPc' = [loadPc EXCEPT ![v] = "fetching"]
    /\ UNCHANGED <<React, ReactDOM, scriptPc, timers, mounts, fetched, calls, lk>>

\* a state change makes React render TaskList again
Render(v) ==
    /\ scriptPc = 3
    /\ view[v] = "mounted"
    /\ rendered[v] # TaskList(heap, st[v])
    /\ rendered' = [rendered EXCEPT ![v] = TaskList(heap, st[v])]
    /\ UNCHANGED <<React, ReactDOM, scriptPc, timers, mounts, view, st, fetched,
                   loadPc, calls, heap, lk>>

\* the fetches load() started before fetch k: timers of equal delay fire in
\* the order they were set
Earlier(k) ==
    CASE k = "tasks" -> {}
      [] k = "assignees" -> {"tasks"}
      [] k = "labels" -> {"tasks", "assignees"}

\* AllResolved with a fault seeded: the join settles with the first fetch
AnyResolved(f) == \E k \in Kinds : f[k] # Undefined

\* Promise.all([...]) is fulfilled: every one of the three has resolved
AllResolved(f) == \A k \in Kinds : f[k] # Undefined

\* the 100 ms timer of fetch k of view v fires and resolves the promise with a
\* slice() of the endpoint (app.js 206-214); nothing clears these timers.
\* When that fulfils the Promise.all, load() resumes in the same turn and
\* calls the four setters (app.js 278-282): the effect has no cleanup and
\* load() tests no flag, so it does so whether or not the view is still there
FetchResolve(v, k) ==
    /\ scriptPc = 3
    /\ loadPc[v] # "idle"
    /\ fetched[v][k] = Undefined
    /\ \A e \in Earlier(k) : fetched[v][e] # Undefined
    /\ heap' = Alloc(heap, v, slice(heap, Endpoint(k)))
    /\ fetched' = [fetched EXCEPT ![v][k] = NewRef(heap, v)]
    /\ IF loadPc[v] = "fetching" /\ AllResolved(fetched'[v])
       THEN /\ st' = [st EXCEPT ![v] = [tasks |-> fetched'[v].tasks,
                                        assignees |-> fetched'[v].assignees,
                                        labels |-> fetched'[v].labels,
                                        loading |-> FALSE]]
            /\ loadPc' = [loadPc EXCEPT ![v] = "done"]
       ELSE UNCHANGED <<st, loadPc>>
    /\ UNCHANGED <<React, ReactDOM, scriptPc, timers, mounts, view, rendered,
                   calls, lk>>

\* updateStatus(taskId, newStatus), reached through onStatusChange of a
\* rendered TaskItem; neither argument is checked.  React runs the updaters
\* in call order, each on the result of the one before, ahead of the next
\* render; the model applies each at its call.
UpdateStatus(v, taskId, newStatus) ==
    /\ scriptPc = 3
    /\ view[v] = "mounted"
    /\ rendered[v].screen = "list"
    /\ TotalCalls < MaxCalls
    /\ LET prev == prevTasks(v)
           r == MapStatus(heap, v, prev, taskId, newStatus)
       IN  /\ heap' = r.heap
           /\ st' = [st EXCEPT ![v].tasks = r.ref]
           /\ calls' = [calls EXCEPT ![v] =
                          Append(@, [taskId |-> taskId, newStatus |-> newStatus,
                                     shown |-> rendered[v].tasks,
                                     prev |-> prev, next |-> r.ref,
                                     before |-> Elems(heap, prev),
                                     after |-> Elems(r.heap, r.ref)])]
    /\ UNCHANGED <<React, ReactDOM, scriptPc, timers, mounts, view, fetched,
                   loadPc, rendered, lk>>

\* the host tears the view down (root unmounted, page section removed)
Teardown(v) ==
    /\ scriptPc = 3
    /\ view[v] = "mounted"
    /\ view' = [view EXCEPT ![v] = "unmounted"]
    /\ rendered' = [rendered EXCEPT ![v] = NoScreen]
    /\ UNCHANGED <<React, ReactDOM, scriptPc, timers, mounts, st, fetched, loadPc,
                   calls, heap, lk>>

Next ==
    \/ \E i \in Copies : RunScript(i)
    \/ \E i \in Copies : TimerFire(i)
    \/ LoadReact
    \/ LoadReactDOM
    \/ \E v \in Copies : FirstRender(v)
    \/ \E v \in Copies : Render(v)
    \/ \E v \in Copies, k \in Kinds : FetchResolve(v, k)
    \/ \E v \in Copies, taskId \in IdInputs, newStatus \in StatusInputs :
          UpdateStatus(v, taskId, newStatus)
    \/ \E v \in Copies : Teardown(v)

Spec == Init /\ [][Next]_vars

\* timers that are set fire, and the script runs to its end
LiveSpec ==
    /\ Spec
    /\ \A i \in Copies : WF_vars(RunScript(i)) /\ WF_vars(TimerFire(i))


\* ------------------------------------------------ getLabels checked on its own
\* the label ids of data.js
LabelIds == {LabelPersonal.id, LabelBug.id, LabelFeature.id}

\* the sequences over S of length at most n
RECURSIVE SeqsUpTo(_, _)
SeqsUpTo(S, n) ==
    IF n = 0 THEN {<<>>}
    ELSE LET shorter == SeqsUpTo(S, n - 1)
         IN  shorter \cup {Append(q, x) : q \in shorter, x \in S}

\* label collections: any of the labels of data.js in any order, ids unique
LabelCollections ==
    {q \in SeqsUpTo({LabelPersonal, LabelBug, LabelFeature}, 3) :
        \A i, j \in 1..Len(q) : i # j => q[i].id # q[j].id}

LookupInit ==
    /\ InitApp
    /\ lk \in [labels : LabelCollections, ids : SeqsUpTo(LabelIds, MaxIds),
               result : {<<>>}, phase : {"input"}]

\* a caller evaluates getLabels(ids) over the label collection
CallGetLabels ==
    /\ lk.phase = "input"
    /\ lk' = [lk EXCEPT !.result = getLabels(lk.labels, lk.ids), !.phase = "done"]
    /\ UNCHANGED appVars

LookupNext == CallGetLabels

LookupSpec == LookupInit /\ [][LookupNext]_vars

\* ===================================================================== claims

\* for each id of ids in turn, the label of that id if the collection has one
RECURSIVE ResolveInOrder(_, _)
ResolveInOrder(labels, ids) ==
    IF ids = <<>> THEN <<>>
    ELSE LET keep(l) == l.id = Head(ids)
             found == SelectSeq(labels, keep)
         IN  (IF found = <<>> THEN <<>> ELSE <<found[1]>>)
                \o ResolveInOrder(labels, Tail(ids))

\* C1: getLabels(ids) returns the matching labels in the order of ids, not of
\* the label collection, and leaves out the ids that have no label
C1_LabelsInIdOrder ==
    lk.phase = "done" => lk.result = ResolveInOrder(lk.labels, lk.ids)

\* C2: an updateStatus(id, s) call yields a collection of the same length and
\* order in which every task with another id is the same object as before and
\* the task with that id differs from the old one in its status alone, which
\* is s; when no task has the id the result equals the prior collection
C2_UpdateStatusFrame ==
    \A v \in Copies : \A n \in 1..Len(calls[v]) :
        LET c == calls[v][n]
            p == At(heap, c.prev).elems
            q == At(heap, c.next).elems
        IN  /\ Len(q) = Len(p)
            /\ Len(c.after) = Len(c.before)
            /\ \A k \in 1..Len(c.before) :
                 IF c.before[k].id = c.taskId
                 THEN c.after[k] = [c.before[k] EXCEPT !.status = c.newStatus]
                 ELSE q[k] = p[k] /\ c.after[k] = c.before[k]
            /\ (\A k \in 1..Len(c.before) : c.before[k].id # c.taskId)
                 => c.after = c.before

\* a view has made a call for an id no task has and then one that changed a task
C2_Witness ==
    \E v \in Copies :
        /\ Len(calls[v]) = 2
        /\ calls[v][1].taskId = 99
        /\ calls[v][2].taskId = 2
        /\ calls[v][2].after # calls[v][2].before

\* C3: a call with a status outside todo, in-progress, done leaves the tasks
\* as they were, so every task of every view has one of the three statuses
C3_StatusInEnum ==
    \A v \in Copies :
        /\ \A n \in 1..Len(calls[v]) :
             calls[v][n].newStatus \notin Statuses
                => calls[v][n].after = calls[v][n].before
        /\ st[v].tasks # Undefined
             => \A k \in 1..Len(At(heap, st[v].tasks).elems) :
                   Elems(heap, st[v].tasks)[k].status \in Statuses

\* C4: once a view is torn down, no later step writes its tasks, assignees,
\* labels or loading flag
C4_NoWriteAfterTeardown ==
    [][\A v \in Copies : view[v] = "unmounted" => st'[v] = st[v]]_vars

\* C5: over all copies of mountWhenReady and all their retries, createRoot and
\* render are called on the container at most once
C5_MountedOnce == mounts[1] + mounts[2] <= 1

\* every fetch of view v has resolved
AllResolvedOf(v) == \A k \in Kinds : fetched[v][k] # Undefined

\* C6: a mounted view is loading, and shows the loading line, while any of its
\* three fetches is pending; whenever its loading flag is off, or its list is
\* on screen, the three fetches have resolved and tasks, assignees and labels
\* are the resolved snapshots (tasks as changed by the calls made since)
C6_ReadyOnlyAfterAllFetches ==
    \A v \in Copies :
        /\ (view[v] = "mounted" /\ ~AllResolvedOf(v))
             => st[v].loading /\ rendered[v].screen = "loading"
        /\ (~st[v].loading \/ rendered[v].screen = "list")
             => /\ AllResolvedOf(v)
                /\ ~st[v].loading
                /\ st[v].assignees = fetched[v].assignees
                /\ st[v].labels = fetched[v].labels
                /\ calls[v] = <<>> => st[v].tasks = fetched[v].tasks
                /\ Len(At(heap, st[v].tasks).elems)
                     = Len(At(heap, fetched[v].tasks).elems)

\* a view shows its list
C6_Witness == \E v \in Copies : rendered[v].screen = "list" /\ ~st[v].loading

\* C7: no step changes a cell that exists (the endpoint arrays, their objects,
\* every array a fetch returned or the state held, every task object); an
\* updateStatus call puts its result into a new array, and the changed task
\* into a new object
C7_NoWriteIntoExisting ==
    [][ /\ \A a \in DOMAIN heap : \A i \in 1..Len(heap[a]) : heap'[a][i] = heap[a][i]
        /\ \A v \in Copies : calls'[v] # calls[v] =>
             LET c == calls'[v][Len(calls'[v])]
                 isNew(r) == r[2] > Len(heap[r[1]])
             IN  /\ isNew(c.next)
                 /\ st'[v].tasks = c.next
                 /\ \A k \in 1..Len(c.before) :
                      c.before[k].id = c.taskId => isNew(At(heap', c.next).elems[k])
      ]_vars

\* a call has given a task another status, and the object the task was
\* before the call still has the old one
C7_Witness ==
    \E v \in Copies : \E n \in 1..Len(calls[v]) :
        LET c == calls[v][n]
        IN  \E k \in 1..Len(c.before) :
               /\ c.before[k].id = c.taskId
               /\ c.before[k].status # c.newStatus
               /\ At(heap, At(heap, c.prev).elems[k]).status = c.before[k].status
               /\ At(heap, At(heap, c.next).elems[k]).status = c.newStatus

names(labels) == [k \in 1..Len(labels) |-> labels[k].name]

\* C8: once the three fetches have resolved the view is ready, and its list
\* has exactly three rows in task order: Alice with [Personal], Bob with
\* [Bug, Feature], Charlie with no labels
C8_SampleRows ==
    \A v \in Copies :
        /\ loadPc[v] = "done" => ~st[v].loading
        /\ rendered[v].screen = "list" =>
             LET rows == rendered[v].rows
             IN  /\ Len(rows) = 3
                 /\ [k \in 1..3 |-> rows[k].key] = <<1, 2, 3>>
                 /\ [k \in 1..3 |-> rows[k].alt] = <<"Alice", "Bob", "Charlie">>
                 /\ [k \in 1..3 |-> names(rows[k].labels)]
                      = << <<"Personal">>, <<"Bug", "Feature">>, <<>> >>

\* a view shows the list of the loaded data, before any status change
C8_Witness ==
    \E v \in Copies : rendered[v].screen = "list" /\ calls[v] = <<>>

RECURSIVE ApplyCalls(_, _, _)
ApplyCalls(tasks, cs, n) ==
    IF n = 0 THEN tasks
    ELSE LET before == ApplyCalls(tasks, cs, n - 1)
         IN  [k \in 1..Len(before) |->
                IF before[k].id = cs[n].taskId
                THEN [before[k] EXCEPT !.status = cs[n].newStatus]
                ELSE before[k]]

\* C10: the tasks of a ready view are the fetched tasks with all its calls
\* applied in call order, and the tasks a render shows are the fetched tasks
\* with a prefix of the calls applied in call order
C10_UpdatesInIssueOrder ==
    \A v \in Copies : loadPc[v] = "done" =>
        LET base == Elems(heap, fetched[v].tasks)
        IN  /\ Elems(heap, st[v].tasks) = ApplyCalls(base, calls[v], Len(calls[v]))
            /\ rendered[v].screen = "list" =>
                 \E n \in 0..Len(calls[v]) :
                    /\ Elems(heap, rendered[v].tasks) = ApplyCalls(base, calls[v], n)
                    /\ [k \in 1..Len(rendered[v].rows) |-> rendered[v].rows[k].value]
                         = [k \in 1..Len(base) |->
                              ApplyCalls(base, calls[v], n)[k].status]

\* two calls for the same task with different statuses, the second made before
\* a render had shown the first, and a render has shown the result of both
C10_Witness ==
    \E v \in Copies :
        /\ Len(calls[v]) = 2
        /\ calls[v][1].taskId = calls[v][2].taskId
        /\ calls[v][1].newStatus # calls[v][2].newStatus
        /\ calls[v][1].after # calls[v][1].before
        /\ calls[v][2].shown # calls[v][2].prev
        /\ rendered[v].tasks = calls[v][2].next

====
